---- MODULE Spec2Model ----
(***************************************************************************)
(* A model of the dynamic AWS resource builder (awsclassic.py): the        *)
(* reference resolver, the lookup-parameter reconciliation, the naming     *)
(* strategy and the build loop of AWSResourceBuilder.                      *)
(*                                                                         *)
(* Python strings are modelled as sequences of one-character strings, so   *)
(* that lower(), strip(), startswith(), split() and slicing are computed   *)
(* and not assumed.  Python values (the YAML argument trees) are tagged    *)
(* records [k |-> kind, v |-> payload]; a dict is the ordered sequence of  *)
(* its [key, val] items, as Python dicts keep insertion order.             *)
(***************************************************************************)
EXTENDS Integers, Sequences, FiniteSets, TLC

VARIABLES
    config,         \* self.config: the configuration mapping (without the resource list)
    aws_resources,  \* config["aws_resources"]: the ordered list of descriptions
    resources,      \* self.resources: logical name -> handle
    idx,            \* position of the build loop in aws_resources
    pc,             \* "building" | "done" (build returned) | "aborted" (exception left build)
    error,          \* the exception that left build(), "none" otherwise
    status,         \* per processed position: how the iteration ended
    calls,          \* provider invocations made so far, in order
    last_abbr       \* the most recent get_abbreviation call: region and result

vars == <<config, aws_resources, resources, idx, pc, error, status, calls, last_abbr>>

(***************************************************************************)
(* Bounds of the model.                                                    *)
(***************************************************************************)
\* Longest list of resource descriptions a build is given.
MaxLen == 2
\* The same, for the builds during which get_abbreviation is also called directly.
NamingMaxLen == 1

(***************************************************************************)
(* Strings.                                                                *)
(***************************************************************************)
UpperChars == <<"A", "B", "C", "D", "E", "F", "G", "H", "I", "J", "K", "L", "M", "N", "O", "P", "Q", "R", "S", "T", "U", "V", "W", "X", "Y", "Z">>
LowerChars == <<"a", "b", "c", "d", "e", "f", "g", "h", "i", "j", "k", "l", "m", "n", "o", "p", "q", "r", "s", "t", "u", "v", "w", "x", "y", "z">>

\* The characters str.strip() removes.
Whitespace == {" ", "\t", "\n", "\r", "\f"}

IsUpper(c) == \E i \in 1..Len(UpperChars) : UpperChars[i] = c

LowerChar(c) ==
    IF IsUpper(c)
    THEN LowerChars[CHOOSE i \in 1..Len(UpperChars) : UpperChars[i] = c]
    ELSE c

\* str.lower()
lower(s) == [i \in 1..Len(s) |-> LowerChar(s[i])]

RECURSIVE lstrip(_)
lstrip(s) == IF s # <<>> /\ Head(s) \in Whitespace THEN lstrip(Tail(s)) ELSE s

RECURSIVE rstrip(_)
rstrip(s) ==
    IF s # <<>> /\ s[Len(s)] \in Whitespace
    THEN rstrip(SubSeq(s, 1, Len(s) - 1))
    ELSE s

\* str.strip()
strip(s) == rstrip(lstrip(s))

\* str.startswith(prefix)
startswith(s, prefix) ==
    Len(s) >= Len(prefix) /\ SubSeq(s, 1, Len(prefix)) = prefix

\* s[:n]
Prefix(s, n) == SubSeq(s, 1, IF Len(s) < n THEN Len(s) ELSE n)

\* s[n:]
Suffix(s, n) == SubSeq(s, n + 1, Len(s))

\* Position of the first / last occurrence of character c in s, 0 when absent.
FirstIndex(s, c) ==
    IF \E i \in 1..Len(s) : s[i] = c
    THEN CHOOSE i \in 1..Len(s) : s[i] = c /\ \A j \in 1..(i - 1) : s[j] # c
    ELSE 0

LastIndex(s, c) ==
    IF \E i \in 1..Len(s) : s[i] = c
    THEN CHOOSE i \in 1..Len(s) : s[i] = c /\ \A j \in (i + 1)..Len(s) : s[j] # c
    ELSE 0

\* re.sub(r'(?<!^)(?=[A-Z])', '_', name): an underscore before every upper-case
\* letter that is not the first character.
RECURSIVE InsertUnderscores(_, _)
InsertUnderscores(name, i) ==
    IF i > Len(name)
    THEN <<>>
    ELSE (IF i > 1 /\ IsUpper(name[i]) THEN <<"_", name[i]>> ELSE <<name[i]>>)
         \o InsertUnderscores(name, i + 1)

to_snake_case(name) == lower(InsertUnderscores(name, 1))

RefPrefix == <<"r", "e", "f", ":">>
K_id == <<"i", "d">>
K_existing == <<"e", "x", "i", "s", "t", "i", "n", "g">>
K_region == <<"r", "e", "g", "i", "o", "n">>
K_tags == <<"t", "a", "g", "s">>
K_opts == <<"o", "p", "t", "s">>
GetPrefix == <<"g", "e", "t", "_">>
DefaultRegion == <<"u", "s", "-", "e", "a", "s", "t", "-", "1">>
DefaultTeam == <<"t", "e", "a", "m">>
DefaultService == <<"s", "v", "c">>
DefaultEnvironment == <<"d", "e", "v">>
K_team == <<"t", "e", "a", "m">>
K_service == <<"s", "e", "r", "v", "i", "c", "e">>
K_environment == <<"e", "n", "v", "i", "r", "o", "n", "m", "e", "n", "t">>

\* The consolidated list of AWS region abbreviations.
AWS_REGION_ABBREVIATIONS ==
    <<"u", "s", "-", "e", "a", "s", "t", "-", "1">> :> <<"u", "s", "e", "1">>
    @@ <<"u", "s", "-", "e", "a", "s", "t", "-", "2">> :> <<"u", "s", "e", "2">>
    @@ <<"u", "s", "-", "w", "e", "s", "t", "-", "1">> :> <<"u", "s", "w", "1">>
    @@ <<"u", "s", "-", "w", "e", "s", "t", "-", "2">> :> <<"u", "s", "w", "2">>
    @@ <<"a", "f", "-", "s", "o", "u", "t", "h", "-", "1">> :> <<"a", "f", "s", "1">>
    @@ <<"a", "p", "-", "e", "a", "s", "t", "-", "1">> :> <<"a", "p", "e", "1">>
    @@ <<"a", "p", "-", "s", "o", "u", "t", "h", "-", "1">> :> <<"a", "p", "s", "1">>
    @@ <<"a", "p", "-", "n", "o", "r", "t", "h", "e", "a", "s", "t", "-", "1">> :> <<"a", "p", "n", "e", "1">>
    @@ <<"a", "p", "-", "n", "o", "r", "t", "h", "e", "a", "s", "t", "-", "2">> :> <<"a", "p", "n", "e", "2">>
    @@ <<"a", "p", "-", "n", "o", "r", "t", "h", "e", "a", "s", "t", "-", "3">> :> <<"a", "p", "n", "e", "3">>
    @@ <<"a", "p", "-", "s", "o", "u", "t", "h", "e", "a", "s", "t", "-", "1">> :> <<"a", "p", "s", "e", "1">>
    @@ <<"a", "p", "-", "s", "o", "u", "t", "h", "e", "a", "s", "t", "-", "2">> :> <<"a", "p", "s", "e", "2">>
    @@ <<"c", "a", "-", "c", "e", "n", "t", "r", "a", "l", "-", "1">> :> <<"c", "a", "c", "1">>
    @@ <<"c", "a", "-", "w", "e", "s", "t", "-", "1">> :> <<"c", "a", "w", "1">>
    @@ <<"e", "u", "-", "c", "e", "n", "t", "r", "a", "l", "-", "1">> :> <<"e", "u", "c", "1">>
    @@ <<"e", "u", "-", "w", "e", "s", "t", "-", "1">> :> <<"e", "u", "w", "1">>
    @@ <<"e", "u", "-", "w", "e", "s", "t", "-", "2">> :> <<"e", "u", "w", "2">>
    @@ <<"e", "u", "-", "w", "e", "s", "t", "-", "3">> :> <<"e", "u", "w", "3">>
    @@ <<"e", "u", "-", "n", "o", "r", "t", "h", "-", "1">> :> <<"e", "u", "n", "1">>
    @@ <<"e", "u", "-", "s", "o", "u", "t", "h", "-", "1">> :> <<"e", "u", "s", "1">>
    @@ <<"m", "e", "-", "s", "o", "u", "t", "h", "-", "1">> :> <<"m", "e", "s", "1">>
    @@ <<"s", "a", "-", "e", "a", "s", "t", "-", "1">> :> <<"s", "a", "e", "1">>
    @@ <<"u", "s", "-", "g", "o", "v", "-", "e", "a", "s", "t", "-", "1">> :> <<"u", "s", "g", "e", "1">>
    @@ <<"u", "s", "-", "g", "o", "v", "-", "w", "e", "s", "t", "-", "1">> :> <<"u", "s", "g", "w", "1">>
    @@ <<"c", "n", "-", "n", "o", "r", "t", "h", "-", "1">> :> <<"c", "n", "n", "1">>
    @@ <<"c", "n", "-", "n", "o", "r", "t", "h", "w", "e", "s", "t", "-", "1">> :> <<"c", "n", "n", "w", "1">>


\* region[:3], the length of the fallback abbreviation.
AbbrevLen == 3

(***************************************************************************)
(* Python values.                                                          *)
(***************************************************************************)
Str(s) == [k |-> "str", v |-> s]
Bool(b) == [k |-> "bool", v |-> b]
\* items: the sequence of [key |-> string, val |-> value], in insertion order
Dict(items) == [k |-> "dict", v |-> items]
List(elems) == [k |-> "list", v |-> elems]
None == [k |-> "none", v |-> "None"]
Item(key, val) == [key |-> key, val |-> val]

\* A resource handle as the provider returns it: which invocation made it and the
\* attributes the object carries (non-None).
Handle(pos, via, attrs) == [k |-> "resource", v |-> [pos |-> pos, via |-> via, attrs |-> attrs]]

\* getattr(resource_obj, ref_attr): the attribute's (deferred) value.
Output(handle, attr) ==
    [k |-> "output", v |-> [pos |-> handle.v.pos, via |-> handle.v.via, attr |-> attr]]

\* self.resources = {}
EmptyRegistry == [n \in {} |-> None]

\* The outcome of a call: a returned value or a raised exception.
Return(x) == [k |-> "return", v |-> x]
Raise(e) == [k |-> "raise", v |-> e]

\* Python truthiness, as `if is_existing:` and `if resource_tags:` apply it.
Truthy(x) ==
    CASE x.k = "bool" -> x.v
      [] x.k = "none" -> FALSE
      [] x.k \in {"str", "dict", "list"} -> x.v # <<>>
      [] OTHER -> TRUE

\* Operations on the items of a dict.
Keys(items) == {items[i].key : i \in 1..Len(items)}
HasKey(items, key) == key \in Keys(items)
GetItem(items, key) == items[CHOOSE i \in 1..Len(items) : items[i].key = key].val
\* d.pop(key, None)
PopKey(items, key) == SelectSeq(items, LAMBDA it : it.key # key)
\* d[key] = val
SetItem(items, key, val) ==
    IF HasKey(items, key)
    THEN [i \in 1..Len(items) |->
             IF items[i].key = key THEN Item(key, val) ELSE items[i]]
    ELSE Append(items, Item(key, val))
\* d.setdefault(key, val)
SetDefault(items, key, val) ==
    IF HasKey(items, key) THEN items ELSE Append(items, Item(key, val))
\* **d: the keyword arguments of a call, where order does not matter.
Kwargs(items) == [key \in Keys(items) |-> GetItem(items, key)]

(***************************************************************************)
(* The reference resolver.                                                 *)
(***************************************************************************)
RECURSIVE resolve_value(_, _)
RECURSIVE resolve_each(_, _)

\* resolve_value with a plausible slip: a reference to an unregistered resource is
\* passed through as the string it is.
resolve_value_lenient(value, registry) ==
    IF value.k = "dict"
    THEN LET vals == resolve_each([i \in 1..Len(value.v) |-> value.v[i].val], registry)
         IN  IF vals.k = "raise"
             THEN vals
             ELSE Return(Dict([i \in 1..Len(value.v) |-> Item(value.v[i].key, vals.v[i])]))
    ELSE IF value.k = "list"
    THEN LET vals == resolve_each(value.v, registry)
         IN  IF vals.k = "raise" THEN vals ELSE Return(List(vals.v))
    ELSE IF value.k = "str" /\ startswith(value.v, RefPrefix)
    THEN LET ref_text == Suffix(value.v, Len(RefPrefix))
             dot == FirstIndex(ref_text, ".")
             ref_res == IF dot > 0 THEN SubSeq(ref_text, 1, dot - 1) ELSE ref_text
             ref_attr == IF dot > 0 THEN Suffix(ref_text, dot) ELSE K_id
         IN  IF ref_res \notin DOMAIN registry
             THEN Return(value)
             ELSE IF ref_attr \notin registry[ref_res].v.attrs
             THEN Raise("AttributeNotFound")
             ELSE Return(Output(registry[ref_res], ref_attr))
    ELSE Return(value)

\* resolve_value with a plausible slip: a mapping is resolved to the list of its
\* resolved values, the keys are lost.
resolve_value_values(value, registry) ==
    IF value.k = "dict"
    THEN LET vals == resolve_each([i \in 1..Len(value.v) |-> value.v[i].val], registry)
         IN  IF vals.k = "raise" THEN vals ELSE Return(List(vals.v))
    ELSE IF value.k = "list"
    THEN LET vals == resolve_each(value.v, registry)
         IN  IF vals.k = "raise" THEN vals ELSE Return(List(vals.v))
    ELSE IF value.k = "str" /\ startswith(value.v, RefPrefix)
    THEN LET ref_text == Suffix(value.v, Len(RefPrefix))
             dot == FirstIndex(ref_text, ".")
             ref_res == IF dot > 0 THEN SubSeq(ref_text, 1, dot - 1) ELSE ref_text
             ref_attr == IF dot > 0 THEN Suffix(ref_text, dot) ELSE K_id
         IN  IF ref_res \notin DOMAIN registry
             THEN Raise("ReferenceNotFound")
             ELSE IF ref_attr \notin registry[ref_res].v.attrs
             THEN Raise("AttributeNotFound")
             ELSE Return(Output(registry[ref_res], ref_attr))
    ELSE Return(value)

\* resolve_value with a plausible slip: the final `else: return value` is missing,
\* so a value that is neither container nor reference comes back as None.
resolve_value_no_else(value, registry) ==
    IF value.k = "dict"
    THEN LET vals == resolve_each([i \in 1..Len(value.v) |-> value.v[i].val], registry)
         IN  IF vals.k = "raise"
             THEN vals
             ELSE Return(Dict([i \in 1..Len(value.v) |-> Item(value.v[i].key, vals.v[i])]))
    ELSE IF value.k = "list"
    THEN LET vals == resolve_each(value.v, registry)
         IN  IF vals.k = "raise" THEN vals ELSE Return(List(vals.v))
    ELSE IF value.k = "str" /\ startswith(value.v, RefPrefix)
    THEN LET ref_text == Suffix(value.v, Len(RefPrefix))
             dot == FirstIndex(ref_text, ".")
             ref_res == IF dot > 0 THEN SubSeq(ref_text, 1, dot - 1) ELSE ref_text
             ref_attr == IF dot > 0 THEN Suffix(ref_text, dot) ELSE K_id
         IN  IF ref_res \notin DOMAIN registry
             THEN Raise("ReferenceNotFound")
             ELSE IF ref_attr \notin registry[ref_res].v.attrs
             THEN Raise("AttributeNotFound")
             ELSE Return(Output(registry[ref_res], ref_attr))
    ELSE Return(None)

\* resolve_value with a plausible slip: a reference without an attribute resolves to
\* the resource object itself, not to its 'id'.
resolve_value_whole_handle(value, registry) ==
    IF value.k = "dict"
    THEN LET vals == resolve_each([i \in 1..Len(value.v) |-> value.v[i].val], registry)
         IN  IF vals.k = "raise"
             THEN vals
             ELSE Return(Dict([i \in 1..Len(value.v) |-> Item(value.v[i].key, vals.v[i])]))
    ELSE IF value.k = "list"
    THEN LET vals == resolve_each(value.v, registry)
         IN  IF vals.k = "raise" THEN vals ELSE Return(List(vals.v))
    ELSE IF value.k = "str" /\ startswith(value.v, RefPrefix)
    THEN LET ref_text == Suffix(value.v, Len(RefPrefix))
             dot == FirstIndex(ref_text, ".")
             ref_res == IF dot > 0 THEN SubSeq(ref_text, 1, dot - 1) ELSE ref_text
         IN  IF ref_res \notin DOMAIN registry
             THEN Raise("ReferenceNotFound")
             ELSE IF dot = 0
             THEN Return(registry[ref_res])
             ELSE IF Suffix(ref_text, dot) \notin registry[ref_res].v.attrs
             THEN Raise("AttributeNotFound")
             ELSE Return(Output(registry[ref_res], Suffix(ref_text, dot)))
    ELSE Return(value)

\* The comprehensions of resolve_value: the elements are resolved left to right and
\* the first exception leaves the comprehension.
resolve_each(elems, registry) ==
    IF elems = <<>>
    THEN Return(<<>>)
    ELSE LET head == resolve_value(Head(elems), registry)
         IN  IF head.k = "raise"
             THEN head
             ELSE LET rest == resolve_each(Tail(elems), registry)
                  IN  IF rest.k = "raise" THEN rest ELSE Return(<<head.v>> \o rest.v)

resolve_value(value, registry) ==
    IF value.k = "dict"
    THEN LET vals == resolve_each([i \in 1..Len(value.v) |-> value.v[i].val], registry)
         IN  IF vals.k = "raise"
             THEN vals
             ELSE Return(Dict([i \in 1..Len(value.v) |-> Item(value.v[i].key, vals.v[i])]))
    ELSE IF value.k = "list"
    THEN LET vals == resolve_each(value.v, registry)
         IN  IF vals.k = "raise" THEN vals ELSE Return(List(vals.v))
    ELSE IF value.k = "str" /\ startswith(value.v, RefPrefix)
    THEN LET ref_text == Suffix(value.v, Len(RefPrefix))
             dot == FirstIndex(ref_text, ".")
             ref_res == IF dot > 0 THEN SubSeq(ref_text, 1, dot - 1) ELSE ref_text
             ref_attr == IF dot > 0 THEN Suffix(ref_text, dot) ELSE K_id
         IN  IF ref_res \notin DOMAIN registry
             THEN Raise("ReferenceNotFound")
             ELSE IF ref_attr \notin registry[ref_res].v.attrs
             THEN Raise("AttributeNotFound")
             ELSE Return(Output(registry[ref_res], ref_attr))
    ELSE Return(value)

\* AWSResourceBuilder.resolve_args: the items of args, resolved in order.
resolve_args(args, registry) ==
    LET vals == resolve_each([i \in 1..Len(args) |-> args[i].val], registry)
    IN  IF vals.k = "raise"
        THEN vals
        ELSE Return([i \in 1..Len(args) |-> Item(args[i].key, vals.v[i])])

(***************************************************************************)
(* Lookup parameters.                                                      *)
(***************************************************************************)
\* get_lookup_params with a plausible slip: the parameter's own name is looked up
\* before its snake_case form.
get_lookup_params_own_first(required_params, resolved_args) ==
    LET found == {p \in required_params :
                     HasKey(resolved_args, to_snake_case(p)) \/ HasKey(resolved_args, p)}
    IN  [p \in found |->
            IF HasKey(resolved_args, p)
            THEN GetItem(resolved_args, p)
            ELSE GetItem(resolved_args, to_snake_case(p))]

\* The keyword arguments of the get_* call: for each required parameter the value
\* under its snake_case form, or else under its own name.
get_lookup_params(required_params, resolved_args) ==
    LET found == {p \in required_params :
                     HasKey(resolved_args, to_snake_case(p)) \/ HasKey(resolved_args, p)}
    IN  [p \in found |->
            IF HasKey(resolved_args, to_snake_case(p))
            THEN GetItem(resolved_args, to_snake_case(p))
            ELSE GetItem(resolved_args, p)]

(***************************************************************************)
(* Naming.                                                                 *)
(***************************************************************************)
\* dict.get(key, default) on the configuration
ConfigGet(cfg, key, default) == IF key \in DOMAIN cfg THEN cfg[key] ELSE default

\* get_abbreviation with a plausible slip: region[3:] for region[:3].
get_abbreviation_tail(region) ==
    IF lower(region) \in DOMAIN AWS_REGION_ABBREVIATIONS
    THEN AWS_REGION_ABBREVIATIONS[lower(region)]
    ELSE lower(Suffix(region, AbbrevLen))

get_abbreviation(region) ==
    IF lower(region) \in DOMAIN AWS_REGION_ABBREVIATIONS
    THEN AWS_REGION_ABBREVIATIONS[lower(region)]
    ELSE lower(Prefix(region, AbbrevLen))

\* generate_resource_name with a plausible slip: the team is not stripped.
generate_resource_name_unstripped(cfg, base_name) ==
    LET team == lower(ConfigGet(cfg, K_team, Str(DefaultTeam)).v)
        service == lower(strip(ConfigGet(cfg, K_service, Str(DefaultService)).v))
        env == lower(strip(ConfigGet(cfg, K_environment, Str(DefaultEnvironment)).v))
        reg_abbr == get_abbreviation(ConfigGet(cfg, K_region, Str(DefaultRegion)).v)
    IN  lower(team \o <<"-">> \o service \o <<"-">> \o env \o <<"-">> \o reg_abbr
              \o <<"-">> \o base_name)

generate_resource_name(cfg, base_name) ==
    LET team == lower(strip(ConfigGet(cfg, K_team, Str(DefaultTeam)).v))
        service == lower(strip(ConfigGet(cfg, K_service, Str(DefaultService)).v))
        env == lower(strip(ConfigGet(cfg, K_environment, Str(DefaultEnvironment)).v))
        reg_abbr == get_abbreviation(ConfigGet(cfg, K_region, Str(DefaultRegion)).v)
    IN  lower(team \o <<"-">> \o service \o <<"-">> \o env \o <<"-">> \o reg_abbr
              \o <<"-">> \o base_name)

(***************************************************************************)
(* Common parameters.                                                      *)
(***************************************************************************)
\* _apply_common_parameters with a plausible slip: the build's tag-set is assigned
\* instead of set as a default.
apply_common_parameters_overriding(cfg, resolved_args, init_params) ==
    LET resource_tags == ConfigGet(cfg, K_tags, None)
        tagged ==
            IF K_tags \in init_params
            THEN IF Truthy(resource_tags)
                 THEN SetItem(resolved_args, K_tags, resource_tags)
                 ELSE resolved_args
            ELSE PopKey(resolved_args, K_tags)
    IN  IF K_region \in init_params
        THEN IF ~HasKey(tagged, K_region)
             THEN SetItem(tagged, K_region, ConfigGet(cfg, K_region, Str(DefaultRegion)))
             ELSE tagged
        ELSE PopKey(tagged, K_region)

\* _apply_common_parameters with a plausible slip: the test on 'region' inverted.
apply_common_parameters_region_inverted(cfg, resolved_args, init_params) ==
    LET resource_tags == ConfigGet(cfg, K_tags, None)
        tagged ==
            IF K_tags \in init_params
            THEN IF Truthy(resource_tags)
                 THEN SetDefault(resolved_args, K_tags, resource_tags)
                 ELSE resolved_args
            ELSE PopKey(resolved_args, K_tags)
    IN  IF K_region \notin init_params
        THEN IF ~HasKey(tagged, K_region)
             THEN SetItem(tagged, K_region, ConfigGet(cfg, K_region, Str(DefaultRegion)))
             ELSE tagged
        ELSE PopKey(tagged, K_region)

\* _apply_common_parameters with a plausible slip: the else branches that strip are
\* missing.
apply_common_parameters_keeping(cfg, resolved_args, init_params) ==
    LET resource_tags == ConfigGet(cfg, K_tags, None)
        tagged ==
            IF K_tags \in init_params /\ Truthy(resource_tags)
            THEN SetDefault(resolved_args, K_tags, resource_tags)
            ELSE resolved_args
    IN  IF K_region \in init_params /\ ~HasKey(tagged, K_region)
        THEN SetItem(tagged, K_region, ConfigGet(cfg, K_region, Str(DefaultRegion)))
        ELSE tagged

\* init_params: the names in inspect.signature(ResourceClass.__init__).parameters
apply_common_parameters(cfg, resolved_args, init_params) ==
    LET resource_tags == ConfigGet(cfg, K_tags, None)
        tagged ==
            IF K_tags \in init_params
            THEN IF Truthy(resource_tags)
                 THEN SetDefault(resolved_args, K_tags, resource_tags)
                 ELSE resolved_args
            ELSE PopKey(resolved_args, K_tags)
    IN  IF K_region \in init_params
        THEN IF ~HasKey(tagged, K_region)
             THEN SetItem(tagged, K_region, ConfigGet(cfg, K_region, Str(DefaultRegion)))
             ELSE tagged
        ELSE PopKey(tagged, K_region)

\* build, lines 199-203: after a lookup that did not return, before the common
\* parameters are applied.
region_after_lookup(cfg, resolved_args, init_params) ==
    IF K_region \in init_params /\ ~HasKey(resolved_args, K_region)
    THEN SetItem(resolved_args, K_region, ConfigGet(cfg, K_region, Str(DefaultRegion)))
    ELSE PopKey(resolved_args, K_region)

(***************************************************************************)
(* The provider SDK (pulumi_aws), as far as build() inspects it: modules,  *)
(* their resource classes and get_* functions, each with the parameters of *)
(* its signature and the attributes of the object it returns.  A sample of *)
(* the SDK: a class declaring tags and region with a lookup that requires  *)
(* one parameter, a class declaring tags only with a lookup that requires  *)
(* none, a class declaring neither and without a lookup, and a class with  *)
(* a lookup whose required parameters are in camelCase, the convention     *)
(* get_lookup_params is written for.                                       *)
(***************************************************************************)
M_s3 == <<"s", "3">>
M_ec2 == <<"e", "c", "2">>
C_Bucket == <<"B", "u", "c", "k", "e", "t">>
C_Vpc == <<"V", "p", "c">>
C_Tag == <<"T", "a", "g">>
F_get_bucket == <<"g", "e", "t", "_", "b", "u", "c", "k", "e", "t">>
F_get_vpc == <<"g", "e", "t", "_", "v", "p", "c">>
P_self == <<"s", "e", "l", "f">>
P_resource_name == <<"r", "e", "s", "o", "u", "r", "c", "e", "_", "n", "a", "m", "e">>
P_bucket == <<"b", "u", "c", "k", "e", "t">>
P_cidr_block == <<"c", "i", "d", "r", "_", "b", "l", "o", "c", "k">>
P_resource_id == <<"r", "e", "s", "o", "u", "r", "c", "e", "_", "i", "d">>
P_key == <<"k", "e", "y">>
P_value == <<"v", "a", "l", "u", "e">>
M_kms == <<"k", "m", "s">>
C_Key == <<"K", "e", "y">>
F_get_key == <<"g", "e", "t", "_", "k", "e", "y">>
P_keyId == <<"k", "e", "y", "I", "d">>
P_key_id == <<"k", "e", "y", "_", "i", "d">>
P_aliasName == <<"a", "l", "i", "a", "s", "N", "a", "m", "e">>
P_grantTokens == <<"g", "r", "a", "n", "t", "T", "o", "k", "e", "n", "s">>
A_arn == <<"a", "r", "n">>

\* One parameter of a signature; has_default is `param.default != param.empty`.
Param(name, has_default) == [name |-> name, has_default |-> has_default]

Class(parameters, attrs) == [k |-> "class", parameters |-> parameters, attrs |-> attrs]
Function(parameters, attrs) == [k |-> "function", parameters |-> parameters, attrs |-> attrs]

aws ==
    M_s3 :> ( C_Bucket :> Class({Param(P_self, FALSE), Param(P_resource_name, FALSE),
                                 Param(K_opts, TRUE), Param(P_bucket, TRUE),
                                 Param(K_region, TRUE), Param(K_tags, TRUE)},
                                {K_id, A_arn, P_bucket})
           @@ F_get_bucket :> Function({Param(P_bucket, FALSE), Param(K_region, TRUE),
                                        Param(K_opts, TRUE)},
                                       {K_id, A_arn}) )
    @@ M_ec2 :> ( C_Vpc :> Class({Param(P_self, FALSE), Param(P_resource_name, FALSE),
                                  Param(K_opts, TRUE), Param(P_cidr_block, TRUE),
                                  Param(K_tags, TRUE)},
                                 {K_id, A_arn})
               @@ F_get_vpc :> Function({Param(P_cidr_block, TRUE), Param(K_id, TRUE),
                                         Param(K_tags, TRUE), Param(K_opts, TRUE)},
                                        {K_id, A_arn})
               @@ C_Tag :> Class({Param(P_self, FALSE), Param(P_resource_name, FALSE),
                                  Param(K_opts, TRUE), Param(P_resource_id, TRUE),
                                  Param(P_key, TRUE), Param(P_value, TRUE)},
                                 {K_id}) )
    @@ M_kms :> ( C_Key :> Class({Param(P_self, FALSE), Param(P_resource_name, FALSE),
                                  Param(K_opts, TRUE), Param(K_tags, TRUE)},
                                 {K_id, A_arn})
               @@ F_get_key :> Function({Param(P_keyId, FALSE), Param(P_aliasName, FALSE),
                                         Param(P_grantTokens, TRUE), Param(K_opts, TRUE)},
                                        {K_id, A_arn}) )

(***************************************************************************)
(* One iteration of the build loop.                                        *)
(***************************************************************************)
\* A provider invocation, as the build made it.
Call(op, pos, target, name, args, returned) ==
    [op |-> op, pos |-> pos, target |-> target, name |-> name, args |-> args,
     returned |-> returned]

\* How an iteration ends: "found" | "created" | "skipped" | "raised", the exception
\* that left it, the invocations it made, the registry it leaves and whether it
\* computed a resource name.
Outcome(end, err, made, registry, named) ==
    [end |-> end, error |-> err, calls |-> made, registry |-> registry, named |-> named]

\* propagate with a plausible slip: the resources made so far are rolled back.
propagate_rolling_back(err, made, registry, named) ==
    Outcome("raised", err, made, EmptyRegistry, named)

\* An exception leaves build(): nothing catches it and nothing is undone, the
\* registry stays as the iterations before left it.
propagate(err, made, registry, named) == Outcome("raised", err, made, registry, named)

\* resolve_type with a plausible slip: the AttributeError of a missing class is not
\* caught.
resolve_type_uncaught(resource_type) ==
    LET dot == LastIndex(resource_type, ".")
        module_name == SubSeq(resource_type, 1, dot - 1)
        class_name == Suffix(resource_type, dot)
        Result(k) == [k |-> k, module_name |-> module_name, class_name |-> class_name]
    IN  IF dot = 0
        THEN Result("raise")
        ELSE IF module_name \notin DOMAIN aws
        THEN Result("skip")
        ELSE IF class_name \notin DOMAIN aws[module_name]
        THEN Result("raise")
        ELSE Result("class")

\* build, lines 149-161: the module and the class the type names.  A type without a
\* dot cannot be unpacked (ValueError); an unknown module or class is skipped.
resolve_type(resource_type) ==
    LET dot == LastIndex(resource_type, ".")
        module_name == SubSeq(resource_type, 1, dot - 1)
        class_name == Suffix(resource_type, dot)
        Result(k) == [k |-> k, module_name |-> module_name, class_name |-> class_name]
    IN  IF dot = 0
        THEN Result("raise")
        ELSE IF module_name \notin DOMAIN aws
        THEN Result("skip")
        ELSE IF class_name \notin DOMAIN aws[module_name]
        THEN Result("skip")
        ELSE Result("class")

\* The required parameters with a plausible slip: the defaults are not looked at.
get_required_params_all(parameters) ==
    {p.name : p \in {q \in parameters : q.name # K_opts}}

\* build, lines 171-173: the parameters of the get_* function that have no default
\* and are not "opts".
get_required_params(parameters) ==
    {p.name : p \in {q \in parameters : q.name # K_opts /\ ~q.has_default}}

\* build, lines 163-213: the resource class is known.
lookup_or_create(cfg, registry, name, pos, resource_type, module, class_name, is_existing, resolved_args, lookup_returns, create_returns) ==
    LET ResourceClass == module[class_name]
        init_params == {p.name : p \in ResourceClass.parameters}
        get_func_name == GetPrefix \o to_snake_case(class_name)
        has_get_func == get_func_name \in DOMAIN module
        get_required ==
            IF has_get_func
            THEN get_required_params(module[get_func_name].parameters)
            ELSE {}
        get_params == get_lookup_params(get_required, resolved_args)
        missing == get_required \ DOMAIN get_params
        lookup_invoked == Truthy(is_existing) /\ has_get_func /\ missing = {}
        lookup_call == Call("lookup", pos, get_func_name, <<>>, get_params, lookup_returns)
    IN  IF lookup_invoked /\ lookup_returns
        THEN Outcome("found", "none", <<lookup_call>>,
                     (name :> Handle(pos, "lookup", module[get_func_name].attrs)) @@ registry,
                     FALSE)
        ELSE LET after_lookup ==
                     IF Truthy(is_existing)
                     THEN region_after_lookup(cfg, resolved_args, init_params)
                     ELSE resolved_args
                 final_args == apply_common_parameters(cfg, after_lookup, init_params)
                 pulumi_name == generate_resource_name(cfg, name)
                 create_call == Call("create", pos, resource_type, pulumi_name,
                                     Kwargs(final_args), create_returns)
                 made == (IF lookup_invoked THEN <<lookup_call>> ELSE <<>>) \o <<create_call>>
             IN  IF create_returns
                 THEN Outcome("created", "none", made,
                              (name :> Handle(pos, "create", ResourceClass.attrs)) @@ registry,
                              TRUE)
                 ELSE propagate("CreationError", made, registry, TRUE)

\* description_after with a plausible slip: no .copy(), so 'existing' is popped from
\* the description's own mapping.
description_after_in_place(resource_cfg) ==
    [resource_cfg EXCEPT !.args = PopKey(resource_cfg.args, K_existing)]

\* build, lines 143-147 and 206: what an iteration leaves in the description it
\* read.  args is a copy of the description's mapping (line 143), 'existing' is
\* popped from the copy (line 146), resolve_args builds a new dict (line 112) and
\* _apply_common_parameters sets and pops keys of that one: the description's own
\* mapping keeps its items, 'existing' included.
description_after(resource_cfg) ==
    LET own == resource_cfg.args
        args == [i \in 1..Len(own) |-> own[i]]
        popped == PopKey(args, K_existing)
    IN  [resource_cfg EXCEPT !.args = own]

\* iteration with a plausible slip: the arguments are resolved against an empty
\* registry instead of self.resources.
iteration_unregistered(cfg, registry, resource_cfg, pos, lookup_returns, create_returns) ==
    LET name == resource_cfg.name
        resource_type == resource_cfg.type
        is_existing ==
            IF HasKey(resource_cfg.args, K_existing)
            THEN GetItem(resource_cfg.args, K_existing)
            ELSE Bool(FALSE)
        args == PopKey(resource_cfg.args, K_existing)
        resolved == resolve_args(args, EmptyRegistry)
        type == resolve_type(resource_type)
    IN  IF resolved.k = "raise"
        THEN propagate(resolved.v, <<>>, registry, FALSE)
        ELSE IF type.k = "raise"
        THEN propagate("ValueError", <<>>, registry, FALSE)
        ELSE IF type.k = "skip"
        THEN Outcome("skipped", "none", <<>>, registry, FALSE)
        ELSE lookup_or_create(cfg, registry, name, pos, resource_type,
                              aws[type.module_name], type.class_name, is_existing,
                              resolved.v, lookup_returns, create_returns)

\* build, lines 140-161, then lookup_or_create.  lookup_returns and create_returns
\* are the provider's answers: whether the get_* call and the constructor return or
\* raise.
iteration(cfg, registry, resource_cfg, pos, lookup_returns, create_returns) ==
    LET name == resource_cfg.name
        resource_type == resource_cfg.type
        is_existing ==
            IF HasKey(resource_cfg.args, K_existing)
            THEN GetItem(resource_cfg.args, K_existing)
            ELSE Bool(FALSE)
        args == PopKey(resource_cfg.args, K_existing)
        resolved == resolve_args(args, registry)
        type == resolve_type(resource_type)
    IN  IF resolved.k = "raise"
        THEN propagate(resolved.v, <<>>, registry, FALSE)
        ELSE IF type.k = "raise"
        THEN propagate("ValueError", <<>>, registry, FALSE)
        ELSE IF type.k = "skip"
        THEN Outcome("skipped", "none", <<>>, registry, FALSE)
        ELSE lookup_or_create(cfg, registry, name, pos, resource_type,
                              aws[type.module_name], type.class_name, is_existing,
                              resolved.v, lookup_returns, create_returns)

(***************************************************************************)
(* The inputs of a build: configurations and resource descriptions.        *)
(***************************************************************************)
V_Acme == <<"A", "c", "m", "e">>
V_AcmePadded == <<" ", "A", "c", "m", "e", " ">>
V_Payments == <<"P", "a", "y", "m", "e", "n", "t", "s">>
V_Prod == <<"P", "r", "o", "d">>
V_ProdPadded == <<"P", "r", "o", "d", " ">>
V_us_east_1 == <<"u", "s", "-", "e", "a", "s", "t", "-", "1">>
V_US_WEST_2 == <<"U", "S", "-", "W", "E", "S", "T", "-", "2">>
V_xx_test_9 == <<"x", "x", "-", "t", "e", "s", "t", "-", "9">>
V_eu_west_1 == <<"e", "u", "-", "w", "e", "s", "t", "-", "1">>
V_owner == <<"o", "w", "n", "e", "r">>
V_teamA == <<"t", "e", "a", "m", "A">>
V_env == <<"e", "n", "v">>
V_x == <<"x">>
N_bucket == <<"b", "u", "c", "k", "e", "t">>
N_net == <<"N", "e", "t", " ">>
V_override == <<"M", "y", "-", "B", "u", "c", "k", "e", "t">>
T_s3_Bucket == <<"s", "3", ".", "B", "u", "c", "k", "e", "t">>
T_ec2_Vpc == <<"e", "c", "2", ".", "V", "p", "c">>
T_ec2_Tag == <<"e", "c", "2", ".", "T", "a", "g">>
T_nope_Bucket == <<"n", "o", "p", "e", ".", "B", "u", "c", "k", "e", "t">>
T_s3_Nope == <<"s", "3", ".", "N", "o", "p", "e">>
T_Bucket == <<"B", "u", "c", "k", "e", "t">>
T_kms_Key == <<"k", "m", "s", ".", "K", "e", "y">>
V_y == <<"y">>
R_bucket == <<"r", "e", "f", ":", "b", "u", "c", "k", "e", "t">>
R_bucket_arn == <<"r", "e", "f", ":", "b", "u", "c", "k", "e", "t", ".", "a", "r", "n">>
R_bucket_zone == <<"r", "e", "f", ":", "b", "u", "c", "k", "e", "t", ".", "z", "o", "n", "e">>
R_net == <<"r", "e", "f", ":", "N", "e", "t", " ">>
R_secret == <<"s", "e", "c", "r", "e", "t", ":", "k", "e", "y">>

TeamTags == Dict(<<Item(V_owner, Str(V_teamA))>>)
OwnTags == Dict(<<Item(V_env, Str(V_x))>>)

\* The configuration mapping; load_config has checked that team, service,
\* environment and region are present, tags is optional.
Config(team, service, environment, region) ==
    K_team :> Str(team) @@ K_service :> Str(service)
    @@ K_environment :> Str(environment) @@ K_region :> Str(region)

Configs ==
    { Config(V_Acme, V_Payments, V_Prod, V_us_east_1) @@ K_tags :> TeamTags,
      Config(V_AcmePadded, V_Payments, V_ProdPadded, V_US_WEST_2) @@ K_tags :> Dict(<<>>),
      Config(V_Acme, V_Payments, V_Prod, V_xx_test_9) }

\* A resource description.  custom_name is None when the description has none.
Description(name, type, custom_name, args) ==
    [name |-> name, type |-> type, custom_name |-> custom_name, args |-> args]

Descriptions ==
    { \* plain creations
      Description(N_bucket, T_s3_Bucket, None, <<>>),
      Description(N_bucket, T_s3_Bucket, Str(V_override), <<Item(P_bucket, Str(V_x))>>),
      Description(N_bucket, T_s3_Bucket, None,
                  <<Item(K_region, Str(V_eu_west_1)), Item(K_tags, OwnTags)>>),
      Description(N_net, T_ec2_Vpc, None,
                  <<Item(K_region, Str(V_eu_west_1)), Item(K_tags, OwnTags)>>),
      Description(N_bucket, T_ec2_Tag, None,
                  <<Item(K_region, Str(V_eu_west_1)), Item(K_tags, OwnTags)>>),
      \* a secret placeholder
      Description(N_bucket, T_s3_Bucket, None, <<Item(P_bucket, Str(R_secret))>>),
      \* existing resources
      Description(N_bucket, T_s3_Bucket, None,
                  <<Item(K_existing, Bool(TRUE)), Item(P_bucket, Str(V_x))>>),
      Description(N_bucket, T_s3_Bucket, None, <<Item(K_existing, Bool(TRUE))>>),
      Description(N_bucket, T_s3_Bucket, None,
                  <<Item(K_existing, Bool(TRUE)), Item(K_region, Str(V_eu_west_1))>>),
      Description(N_bucket, T_ec2_Vpc, None,
                  <<Item(K_existing, Bool(TRUE)), Item(K_region, Str(V_eu_west_1)),
                    Item(P_cidr_block, Str(V_x))>>),
      Description(N_net, T_kms_Key, None,
                  <<Item(K_existing, Bool(TRUE)), Item(P_keyId, Str(V_y)),
                    Item(P_key_id, Str(R_bucket)), Item(P_aliasName, Str(V_x)),
                    Item(P_grantTokens, Str(V_y))>>),
      Description(N_bucket, T_ec2_Tag, None, <<Item(K_existing, Bool(TRUE))>>),
      Description(N_bucket, T_s3_Bucket, None,
                  <<Item(K_existing, Str(R_net)), Item(P_bucket, Str(V_x))>>),
      Description(N_net, T_s3_Bucket, None,
                  <<Item(K_existing, Bool(TRUE)), Item(P_bucket, Str(R_bucket))>>),
      \* unknown module, unknown class, malformed type
      Description(N_bucket, T_nope_Bucket, None, <<>>),
      Description(N_bucket, T_s3_Nope, None, <<Item(P_bucket, Str(V_x))>>),
      Description(N_bucket, T_Bucket, None, <<>>),
      Description(N_net, T_nope_Bucket, None, <<Item(P_bucket, Str(R_bucket))>>),
      \* references
      Description(N_net, T_ec2_Vpc, None, <<Item(P_cidr_block, Str(R_bucket))>>),
      Description(N_net, T_s3_Bucket, None,
                  <<Item(P_bucket, Str(V_x)),
                    Item(K_tags, Dict(<<Item(V_env, List(<<Str(R_bucket_arn), Str(V_x)>>))>>))>>),
      Description(N_net, T_ec2_Vpc, None,
                  <<Item(P_cidr_block, Str(R_bucket_zone)), Item(K_tags, Str(R_net))>>) }

\* The lists of at most max descriptions.
DescriptionLists(max) == UNION {[1..n -> Descriptions] : n \in 0..max}

\* The regions get_abbreviation is called with directly.
Regions == {V_us_east_1, V_US_WEST_2, V_xx_test_9, <<"e", "u">>, <<>>}

(***************************************************************************)
(* The state machine.                                                      *)
(***************************************************************************)
NoAbbreviation == [called |-> FALSE, region |-> <<>>, code |-> <<>>]
Abbreviation(region) == [called |-> TRUE, region |-> region, code |-> get_abbreviation(region)]

\* AWSResourceBuilder(config_data), before build().
Start(lists) ==
    /\ config \in Configs
    /\ aws_resources \in lists
    /\ resources = EmptyRegistry
    /\ idx = 1
    /\ pc = "building"
    /\ error = "none"
    /\ status = <<>>
    /\ calls = <<>>
    /\ last_abbr = NoAbbreviation

Init == Start(DescriptionLists(MaxLen))

\* One iteration of the loop of build() on aws_resources[idx], ending as `end`.
Iterate(end, lookup_returns, create_returns) ==
    /\ idx <= Len(aws_resources)
    /\ \E out \in {iteration(config, resources, aws_resources[idx], idx,
                             lookup_returns, create_returns)} :
           /\ out.end = end
           /\ resources' = out.registry
           /\ calls' = calls \o out.calls
           /\ status' = Append(status, out.end)
           /\ error' = out.error
           /\ pc' = IF out.end = "raised" THEN "aborted" ELSE "building"
           /\ idx' = IF out.end = "raised" THEN idx ELSE idx + 1
           /\ last_abbr' =
                  IF out.named
                  THEN Abbreviation(ConfigGet(config, K_region, Str(DefaultRegion)).v)
                  ELSE last_abbr
    /\ aws_resources' = [aws_resources EXCEPT ![idx] = description_after(@)]
    /\ UNCHANGED config

\* The iteration leaves build() with an exception: an unresolved reference, a missing
\* attribute, a type without a dot (whatever the provider would answer), or an
\* exception from the constructor (after a lookup that was not made, or raised).
IterationRaises ==
    /\ pc = "building"
    /\ \E lookup_returns \in BOOLEAN : Iterate("raised", lookup_returns, FALSE)

\* Unknown module or class: warning, `continue`.  No provider call is made.
SkipResource ==
    /\ pc = "building"
    /\ Iterate("skipped", TRUE, TRUE)

\* The get_* call returned: the handle is registered, `continue`.
FetchExisting ==
    /\ pc = "building"
    /\ Iterate("found", TRUE, TRUE)

\* The constructor returned (after a lookup that was not made, or raised): the
\* handle is registered.
CreateResource ==
    /\ pc = "building"
    /\ \E lookup_returns \in BOOLEAN : Iterate("created", lookup_returns, TRUE)

\* The loop is over: build() returns.
BuildReturns ==
    /\ pc = "building"
    /\ idx > Len(aws_resources)
    /\ pc' = "done"
    /\ UNCHANGED <<config, aws_resources, resources, idx, error, status, calls, last_abbr>>

\* A direct call of the method get_abbreviation.
CallGetAbbreviation ==
    /\ \E region \in Regions : last_abbr' = Abbreviation(region)
    /\ UNCHANGED <<config, aws_resources, resources, idx, pc, error, status, calls>>

Next ==
    \/ IterationRaises
    \/ SkipResource
    \/ FetchExisting
    \/ CreateResource
    \/ BuildReturns

Spec == Init /\ [][Next]_vars

NextNaming == Next \/ CallGetAbbreviation

\* The build, with get_abbreviation also called from outside it.
InitNaming == Start(DescriptionLists(NamingMaxLen))

SpecNaming == InitNaming /\ [][NextNaming]_vars

(***************************************************************************)
(* Vocabulary of the properties.                                           *)
(***************************************************************************)
\* The positions whose iteration has ended (the last one possibly by an exception).
Processed == 1..Len(status)

CallsAt(i, op) == {j \in 1..Len(calls) : calls[j].pos = i /\ calls[j].op = op}
LookupsAt(i) == CallsAt(i, "lookup")
CreatesAt(i) == CallsAt(i, "create")
CreateCalls == {j \in 1..Len(calls) : calls[j].op = "create"}

\* The logical names registered by the iterations before position i.
RegisteredBefore(i) ==
    {aws_resources[j].name : j \in {h \in 1..(i - 1) : status[h] \in {"found", "created"}}}

\* The reference tokens in a value, at any depth: [name, attr] of 'ref:name.attr'
\* ('ref:name' has attr "id").
RECURSIVE RefTokens(_)
RefTokens(value) ==
    CASE value.k = "dict" -> UNION {RefTokens(value.v[i].val) : i \in 1..Len(value.v)}
      [] value.k = "list" -> UNION {RefTokens(value.v[i]) : i \in 1..Len(value.v)}
      [] value.k = "str" /\ startswith(value.v, RefPrefix) ->
            LET text == Suffix(value.v, Len(RefPrefix))
                dot == FirstIndex(text, ".")
            IN  {[name |-> IF dot > 0 THEN SubSeq(text, 1, dot - 1) ELSE text,
                  attr |-> IF dot > 0 THEN Suffix(text, dot) ELSE K_id]}
      [] OTHER -> {}

\* The arguments of the description at position i, and those that are resolved
\* (all but the 'existing' entry).
ArgsAt(i) == aws_resources[i].args
ResolvedArgsAt(i) == PopKey(ArgsAt(i), K_existing)

\* Argument resolution failed at position i (then i is the last position processed).
ResolutionFailedAt(i) ==
    /\ i = Len(status)
    /\ status[i] = "raised"
    /\ error \in {"ReferenceNotFound", "AttributeNotFound"}
    /\ CallsAt(i, "lookup") \cup CallsAt(i, "create") = {}

\* The description at position i is marked existing.
ExistingAt(i) == HasKey(ArgsAt(i), K_existing) /\ Truthy(GetItem(ArgsAt(i), K_existing))

\* The type at position i, 'module.Class', split at its last dot.
DotAt(i) == LastIndex(aws_resources[i].type, ".")
ModuleNameAt(i) == SubSeq(aws_resources[i].type, 1, DotAt(i) - 1)
ClassNameAt(i) == Suffix(aws_resources[i].type, DotAt(i))

\* The module and the creation entry point of the type at position i resolve.
ModuleKnownAt(i) == DotAt(i) > 0 /\ ModuleNameAt(i) \in DOMAIN aws
ClassKnownAt(i) == ModuleKnownAt(i) /\ ClassNameAt(i) \in DOMAIN aws[ModuleNameAt(i)]
ClassAt(i) == aws[ModuleNameAt(i)][ClassNameAt(i)]
DeclaresAt(i, param) == \E p \in ClassAt(i).parameters : p.name = param

\* The lookup entry point of the type at position i, when it has one.
LookupNameAt(i) == GetPrefix \o to_snake_case(ClassNameAt(i))
HasLookupAt(i) == ClassKnownAt(i) /\ LookupNameAt(i) \in DOMAIN aws[ModuleNameAt(i)]
MandatoryAt(i) ==
    {p.name : p \in {q \in aws[ModuleNameAt(i)][LookupNameAt(i)].parameters :
                        ~q.has_default /\ q.name # K_opts}}
SatisfiableAt(i, p) ==
    HasKey(ResolvedArgsAt(i), to_snake_case(p)) \/ HasKey(ResolvedArgsAt(i), p)

(***************************************************************************)
(* C1.                                                                     *)
(***************************************************************************)
\* Position i holds a token 'ref:x' in the given arguments with x not registered by
\* an earlier position.
HasUnregisteredRef(i, args) ==
    \E t \in RefTokens(Dict(args)) : t.name \notin RegisteredBefore(i)

\* C1 as stated: a description whose arguments contain 'ref:x', with x not registered
\* before it, fails with the reference-not-found error and makes no provider
\* invocation.
C1_ForwardReferenceNotFound ==
    \A i \in Processed :
        HasUnregisteredRef(i, ResolvedArgsAt(i)) =>
            /\ ResolutionFailedAt(i)
            /\ error = "ReferenceNotFound"

\* C1 as amended: a description whose arguments (the 'existing' entry aside, which is
\* removed before resolution) contain 'ref:x', with x not registered before it, fails
\* in argument resolution and makes no provider invocation; the error is
\* reference-not-found, or attribute-not-found when the arguments also hold a token
\* of a registered resource without the named attribute.
C1_ForwardReferenceFails ==
    \A i \in Processed :
        HasUnregisteredRef(i, ResolvedArgsAt(i)) =>
            /\ ResolutionFailedAt(i)
            /\ \/ error = "ReferenceNotFound"
               \/ /\ error = "AttributeNotFound"
                  /\ \E t \in RefTokens(Dict(ResolvedArgsAt(i))) :
                        /\ t.name \in DOMAIN resources
                        /\ t.attr \notin resources[t.name].v.attrs

\* A nested token 'ref:bucket.arn' (inside a list inside a mapping) at the first
\* position, where nothing is registered: the build aborted there.
C1_Witness ==
    /\ Len(status) = 1
    /\ \E t \in RefTokens(Dict(ResolvedArgsAt(1))) : t.attr = A_arn
    /\ \A k \in 1..Len(ArgsAt(1)) : ArgsAt(1)[k].val.k # "str" \/ ~startswith(ArgsAt(1)[k].val.v, RefPrefix)
    /\ ResolutionFailedAt(1)
    /\ error = "ReferenceNotFound"

(***************************************************************************)
(* C2.                                                                     *)
(***************************************************************************)
\* Position i is an existing description whose type resolves, whose lookup entry
\* point exists, whose arguments resolved and whose mandatory lookup parameters are
\* all satisfiable.
LookupViableAt(i) ==
    /\ ExistingAt(i)
    /\ ClassKnownAt(i)
    /\ HasLookupAt(i)
    /\ ~ResolutionFailedAt(i)
    /\ \A p \in MandatoryAt(i) : SatisfiableAt(i, p)

\* C2 as stated: for an existing description with a viable lookup the lookup entry
\* point is invoked and the creation entry point is never invoked.
C2_LookupNeverCreates ==
    \A i \in Processed :
        LookupViableAt(i) /\ GetItem(ArgsAt(i), K_existing) = Bool(TRUE)
            => LookupsAt(i) # {} /\ CreatesAt(i) = {}

\* C2 as amended: for an existing description with a viable lookup the lookup entry
\* point is invoked exactly once; when it returns, the description is Found and the
\* creation entry point is never invoked for it; when it raises, the creation entry
\* point is invoked once, after it.
C2_LookupThenCreateOnlyOnFailure ==
    \A i \in Processed :
        LookupViableAt(i) =>
            /\ Cardinality(LookupsAt(i)) = 1
            /\ \A l \in LookupsAt(i) :
                  /\ calls[l].returned => CreatesAt(i) = {} /\ status[i] = "found"
                  /\ ~calls[l].returned =>
                        /\ Cardinality(CreatesAt(i)) = 1
                        /\ \A c \in CreatesAt(i) : l < c

\* Two viable lookups with a mandatory parameter in one build: the first returned
\* (Found, nothing created), the second raised and the resource was created.
C2_Witness ==
    /\ Len(status) = 2
    /\ LookupViableAt(1) /\ LookupViableAt(2)
    /\ MandatoryAt(1) # {} /\ MandatoryAt(2) # {}
    /\ status[1] = "found" /\ CreatesAt(1) = {}
    /\ status[2] = "created" /\ LookupsAt(2) # {}

(***************************************************************************)
(* C3.                                                                     *)
(***************************************************************************)
\* C3: for an existing description whose type resolves and with a mandatory lookup
\* parameter that is not satisfiable, the lookup entry point is not invoked, the
\* creation entry point is invoked exactly once, and when it declares 'region' its
\* arguments contain 'region', the build's region when the description gave none.
C3_MissingLookupParamCreates ==
    \A i \in Processed :
        ( /\ ExistingAt(i)
          /\ ClassKnownAt(i)
          /\ HasLookupAt(i)
          /\ ~ResolutionFailedAt(i)
          /\ \E p \in MandatoryAt(i) : ~SatisfiableAt(i, p) )
        =>
        /\ LookupsAt(i) = {}
        /\ Cardinality(CreatesAt(i)) = 1
        /\ DeclaresAt(i, K_region) =>
              \A c \in CreatesAt(i) :
                  /\ K_region \in DOMAIN calls[c].args
                  /\ ~HasKey(ArgsAt(i), K_region) =>
                        calls[c].args[K_region] = ConfigGet(config, K_region, Str(DefaultRegion))

\* An existing description without the mandatory 'bucket' and without a region, of
\* a class that declares 'region': it was created, with the build's region.
C3_Witness ==
    \E i \in Processed :
        /\ ExistingAt(i) /\ HasLookupAt(i)
        /\ \E p \in MandatoryAt(i) : ~SatisfiableAt(i, p)
        /\ DeclaresAt(i, K_region) /\ ~HasKey(ArgsAt(i), K_region)
        /\ status[i] = "created"
        /\ \E c \in CreatesAt(i) : calls[c].args[K_region] = config[K_region]

(***************************************************************************)
(* C4.                                                                     *)
(***************************************************************************)
\* The creation invocations a step adds.
NewCreateCalls == {j \in (Len(calls) + 1)..Len(calls') : calls'[j].op = "create"}

\* C4: a creation invocation of a class declaring 'tags' receives the build's
\* tag-set when that is non-empty and the description has no 'tags' key, and the
\* description's resolved value when it has one.
C4_TagsReconciled ==
    [][\A j \in NewCreateCalls :
          DeclaresAt(idx, K_tags) =>
              /\ ( /\ Truthy(ConfigGet(config, K_tags, None))
                   /\ ~HasKey(ArgsAt(idx), K_tags) )
                 => /\ K_tags \in DOMAIN calls'[j].args
                    /\ calls'[j].args[K_tags] = config[K_tags]
              /\ HasKey(ArgsAt(idx), K_tags)
                 => /\ K_tags \in DOMAIN calls'[j].args
                    /\ calls'[j].args[K_tags] =
                           resolve_value(GetItem(ArgsAt(idx), K_tags), resources).v
      ]_vars

\* With a non-empty build tag-set: one creation without own tags received the
\* build's tag-set, another with own tags (holding a reference) kept its own,
\* resolved.
C4_Witness ==
    /\ Truthy(ConfigGet(config, K_tags, None))
    /\ \E c \in CreateCalls :
          /\ DeclaresAt(calls[c].pos, K_tags)
          /\ ~HasKey(ArgsAt(calls[c].pos), K_tags)
          /\ calls[c].args[K_tags] = config[K_tags]
    /\ \E c \in CreateCalls :
          /\ DeclaresAt(calls[c].pos, K_tags)
          /\ HasKey(ArgsAt(calls[c].pos), K_tags)
          /\ RefTokens(GetItem(ArgsAt(calls[c].pos), K_tags)) # {}
          /\ calls[c].args[K_tags] # config[K_tags]
          /\ RefTokens(calls[c].args[K_tags]) = {}

(***************************************************************************)
(* C5.                                                                     *)
(***************************************************************************)
DescriptionOf(c) == aws_resources[calls[c].pos]

\* C5: a description that carries a name override ('custom_name') is created under
\* that name, verbatim.
C5_OverrideNameUsed ==
    \A c \in CreateCalls :
        DescriptionOf(c).custom_name # None =>
            calls[c].name = DescriptionOf(c).custom_name.v

(***************************************************************************)
(* C6.                                                                     *)
(***************************************************************************)
TrimLower(s) == lower(strip(s))

\* team-service-environment-abbreviation-logical, the identity fields trimmed and
\* lower-cased, the abbreviation the table's entry for the lower-cased region.
ComposedName(logical) ==
    TrimLower(config[K_team].v) \o <<"-">> \o TrimLower(config[K_service].v) \o <<"-">>
    \o TrimLower(config[K_environment].v) \o <<"-">>
    \o AWS_REGION_ABBREVIATIONS[lower(config[K_region].v)] \o <<"-">> \o logical

RegionInTable == lower(config[K_region].v) \in DOMAIN AWS_REGION_ABBREVIATIONS

\* 'acme-payments-prod-use1-bucket'
ExampleName ==
    <<"a", "c", "m", "e", "-", "p", "a", "y", "m", "e", "n", "t", "s", "-", "p", "r", "o", "d", "-", "u", "s", "e", "1", "-", "b", "u", "c", "k", "e", "t">>

\* C6 as stated: without a name override the creation name is the composed name
\* with every component, the logical name included, trimmed and lower-cased.
C6_NameAllComponentsTrimmed ==
    \A c \in CreateCalls :
        DescriptionOf(c).custom_name = None /\ RegionInTable =>
            calls[c].name = ComposedName(TrimLower(DescriptionOf(c).name))

\* C6 as amended: without a name override the creation name is the composed name
\* with team, service and environment trimmed and lower-cased and the logical name
\* lower-cased but not trimmed; team 'Acme', service 'Payments', environment 'Prod',
\* region 'us-east-1' and logical name 'bucket' give 'acme-payments-prod-use1-bucket'.
C6_NameLogicalLowered ==
    \A c \in CreateCalls :
        DescriptionOf(c).custom_name = None /\ RegionInTable =>
            /\ calls[c].name = ComposedName(lower(DescriptionOf(c).name))
            /\ ( /\ config[K_team].v = V_Acme
                 /\ config[K_service].v = V_Payments
                 /\ config[K_environment].v = V_Prod
                 /\ config[K_region].v = V_us_east_1
                 /\ DescriptionOf(c).name = N_bucket )
               => calls[c].name = ExampleName

\* A creation under a configuration with padded, mixed-case identity fields and an
\* upper-case region, of a logical name with an upper-case letter and a trailing
\* blank.
C6_Witness ==
    \E c \in CreateCalls :
        /\ DescriptionOf(c).custom_name = None
        /\ RegionInTable
        /\ config[K_team].v # TrimLower(config[K_team].v)
        /\ config[K_region].v # lower(config[K_region].v)
        /\ DescriptionOf(c).name # TrimLower(DescriptionOf(c).name)
        /\ calls[c].returned

(***************************************************************************)
(* C7.                                                                     *)
(***************************************************************************)
\* The last get_abbreviation call was made with a region without a table entry.
FallbackCalled ==
    last_abbr.called /\ lower(last_abbr.region) \notin DOMAIN AWS_REGION_ABBREVIATIONS

\* Two successive get_abbreviation calls with the same region return the same code,
\* whatever the build did in between.
SameRegionSameCode ==
    (last_abbr.called /\ last_abbr'.called /\ last_abbr'.region = last_abbr.region)
        => last_abbr'.code = last_abbr.code

\* C7 as stated: for every region without a table entry get_abbreviation returns a
\* non-empty code that depends on the region alone.
C7_FallbackNonEmpty ==
    [](FallbackCalled => last_abbr.code # <<>>) /\ [][SameRegionSameCode]_vars

\* C7 as amended: for every non-empty region without a table entry get_abbreviation
\* returns a non-empty code that depends on the region alone.
C7_FallbackNonEmptyForNonEmptyRegion ==
    /\ [](FallbackCalled /\ last_abbr.region # <<>> => last_abbr.code # <<>>)
    /\ [][SameRegionSameCode]_vars

\* get_abbreviation('xx-test-9') was called after the build registered a resource.
C7_Witness ==
    /\ FallbackCalled
    /\ last_abbr.region = V_xx_test_9
    /\ last_abbr.code # <<>>
    /\ DOMAIN resources # {}

(***************************************************************************)
(* C8.                                                                     *)
(***************************************************************************)
\* The type at position i names an unknown module, or a class its module lacks.
TypeUnknownAt(i) == DotAt(i) > 0 /\ ~ClassKnownAt(i)

\* Position i was skipped: no invocation, no registry entry, and the loop went on.
SkippedAt(i) ==
    /\ status[i] = "skipped"
    /\ LookupsAt(i) = {} /\ CreatesAt(i) = {}
    /\ \A n \in DOMAIN resources : resources[n].v.pos # i
    /\ idx > i

\* C8 as stated: a description of an unknown module or class never aborts the
\* build: it is skipped and processing continues with the next description.
C8_UnknownTypeAlwaysSkipped ==
    \A i \in Processed : TypeUnknownAt(i) => SkippedAt(i)

\* C8 as amended: a description of an unknown module or class whose arguments resolve
\* is skipped and processing continues with the next description; its arguments are
\* resolved before its type is looked at, so when their resolution fails the build
\* aborts at that description, without any invocation.
C8_UnknownTypeSkippedOnceResolved ==
    \A i \in Processed :
        TypeUnknownAt(i) =>
            IF ResolutionFailedAt(i) THEN pc = "aborted" /\ idx = i ELSE SkippedAt(i)

\* A description of an unknown module, then one of an unknown class of a known
\* module: both were skipped and the build returned.
C8_Witness ==
    /\ Len(status) = 2
    /\ TypeUnknownAt(1) /\ ~ModuleKnownAt(1)
    /\ TypeUnknownAt(2) /\ ModuleKnownAt(2)
    /\ SkippedAt(1) /\ SkippedAt(2)
    /\ pc = "done"

(***************************************************************************)
(* C9.                                                                     *)
(***************************************************************************)
\* C9: when the iteration at position i fails fatally the build stops there: the
\* failing step leaves the registry as the earlier positions made it, no step
\* follows it, and no invocation is made for a position after i.
C9_AbortStopsBuild ==
    [][ /\ pc # "aborted"
        /\ pc' = "aborted" =>
              /\ resources' = resources
              /\ idx' = idx
              /\ status'[idx] = "raised"
              /\ \A j \in 1..Len(calls') : calls'[j].pos <= idx
      ]_vars

\* The build aborted at the second position on an exception of the constructor,
\* with the handle of the first position in the registry.
C9_Witness ==
    /\ pc = "aborted"
    /\ idx = 2
    /\ error = "CreationError"
    /\ status = <<"created", "raised">>
    /\ \E n \in DOMAIN resources : resources[n].v.pos = 1

(***************************************************************************)
(* C10.                                                                    *)
(***************************************************************************)
\* C10: the registry only grows: a logical name, once mapped to a handle, stays
\* mapped to that handle.
C10_RegistryOnlyGrows ==
    [][\A n \in DOMAIN resources :
          n \in DOMAIN resources' /\ resources'[n] = resources[n]]_vars

(***************************************************************************)
(* C11.                                                                    *)
(***************************************************************************)
SecretPrefix == <<"s", "e", "c", "r", "e", "t", ":">>

\* The value holds, at some depth, a string of the form 'secret:<key>'.
RECURSIVE HoldsSecretToken(_)
HoldsSecretToken(value) ==
    CASE value.k = "dict" -> \E i \in 1..Len(value.v) : HoldsSecretToken(value.v[i].val)
      [] value.k = "list" -> \E i \in 1..Len(value.v) : HoldsSecretToken(value.v[i])
      [] value.k = "str" -> startswith(value.v, SecretPrefix)
      [] OTHER -> FALSE

\* C11: a string 'secret:<key>' in a description's arguments is replaced by the
\* secret provider's value: no lookup or creation invocation receives an argument
\* that holds the literal 'secret:<key>' string.
C11_SecretNeverPassedThrough ==
    \A j \in 1..Len(calls) :
        \A key \in DOMAIN calls[j].args : ~HoldsSecretToken(calls[j].args[key])

(***************************************************************************)
(* C12.                                                                    *)
(***************************************************************************)
\* A string with a reserved prefix.
IsToken(value) ==
    value.k = "str" /\ (startswith(value.v, RefPrefix) \/ startswith(value.v, SecretPrefix))

\* b has the shape of a: a mapping with the same keys in the same order, a sequence
\* of the same length, position by position of the same shape; a leaf that is not a
\* token is the same value.
RECURSIVE SameShape(_, _)
SameShape(a, b) ==
    CASE a.k = "dict" ->
            /\ b.k = "dict"
            /\ Len(b.v) = Len(a.v)
            /\ \A i \in 1..Len(a.v) :
                  b.v[i].key = a.v[i].key /\ SameShape(a.v[i].val, b.v[i].val)
      [] a.k = "list" ->
            /\ b.k = "list"
            /\ Len(b.v) = Len(a.v)
            /\ \A i \in 1..Len(a.v) : SameShape(a.v[i], b.v[i])
      [] IsToken(a) -> TRUE
      [] OTHER -> b = a

\* C12: whenever the resolution of a description's arguments succeeds, in any
\* registry state, the result has the shape of the arguments: mappings stay mappings
\* with the same keys, sequences keep length and order, and every leaf that is not a
\* reserved-prefix string is unchanged.
C12_ResolutionKeepsShape ==
    \A i \in 1..Len(aws_resources) :
        LET result == resolve_args(ResolvedArgsAt(i), resources)
        IN  result.k = "return" => SameShape(Dict(ResolvedArgsAt(i)), Dict(result.v))

\* A creation received a 'tags' mapping whose entry holds a list of two: the value a
\* reference was substituted by, then the plain string that stood next to it.
C12_Witness ==
    \E c \in CreateCalls :
        /\ K_tags \in DOMAIN calls[c].args
        /\ calls[c].args[K_tags].k = "dict"
        /\ Len(calls[c].args[K_tags].v) = 1
        /\ calls[c].args[K_tags].v[1].key = V_env
        /\ calls[c].args[K_tags].v[1].val.k = "list"
        /\ Len(calls[c].args[K_tags].v[1].val.v) = 2
        /\ calls[c].args[K_tags].v[1].val.v[1].k = "output"
        /\ calls[c].args[K_tags].v[1].val.v[2] = Str(V_x)
        /\ RefTokens(GetItem(ArgsAt(calls[c].pos), K_tags)) # {}

(***************************************************************************)
(* C13.                                                                    *)
(***************************************************************************)
\* The value holds, at some depth, a string with a reserved prefix.
RECURSIVE HoldsToken(_)
HoldsToken(value) ==
    CASE value.k = "dict" -> \E i \in 1..Len(value.v) : HoldsToken(value.v[i].val)
      [] value.k = "list" -> \E i \in 1..Len(value.v) : HoldsToken(value.v[i])
      [] OTHER -> IsToken(value)

\* The argument values of the descriptions of the build, and the values the
\* invocations made so far received.
ArgumentValues ==
    UNION {{ArgsAt(i)[k].val : k \in 1..Len(ArgsAt(i))} : i \in 1..Len(aws_resources)}
PassedValues ==
    UNION {{calls[j].args[key] : key \in DOMAIN calls[j].args} : j \in 1..Len(calls)}

\* C13: a value without a reserved-prefix string at any depth resolves, in every
\* registry state, to a value equal to it; so a resolved value without such a
\* string resolves to itself again.
C13_ResolvedValueIsFixpoint ==
    \A value \in ArgumentValues \cup PassedValues :
        ~HoldsToken(value) =>
            /\ resolve_value(value, resources) = Return(value)
            /\ resolve_value(resolve_value(value, resources).v, resources) = Return(value)

\* With a resource registered, a creation received a nested 'tags' mapping that
\* holds no token and that a description supplied; and another creation received
\* the value of a resolved reference, which holds no token either.
C13_Witness ==
    /\ DOMAIN resources # {}
    /\ \E c \in CreateCalls :
          /\ K_tags \in DOMAIN calls[c].args
          /\ calls[c].args[K_tags] = OwnTags
          /\ HasKey(ArgsAt(calls[c].pos), K_tags)
    /\ \E c \in CreateCalls :
          \E key \in DOMAIN calls[c].args : calls[c].args[key].k = "output"

(***************************************************************************)
(* C14.                                                                    *)
(***************************************************************************)
\* C14: a creation invocation of a class that declares 'region' receives the
\* description's region when the description supplied one and the build's default
\* region when it supplied none; a class that does not declare 'region' receives
\* none.  This on every path to creation: never marked existing, or existing with
\* the lookup abandoned or failed.
C14_SuppliedRegionKept ==
    \A c \in CreateCalls :
        LET i == calls[c].pos
        IN  IF DeclaresAt(i, K_region)
            THEN /\ K_region \in DOMAIN calls[c].args
                 /\ calls[c].args[K_region] =
                        IF HasKey(ArgsAt(i), K_region)
                        THEN GetItem(ArgsAt(i), K_region)
                        ELSE ConfigGet(config, K_region, Str(DefaultRegion))
            ELSE K_region \notin DOMAIN calls[c].args

(***************************************************************************)
(* C15.                                                                    *)
(***************************************************************************)
\* Position b was reached, its arguments hold reference tokens, and each of them
\* names the logical name of a description before b.
RefersBack(b) ==
    /\ b \in Processed
    /\ RefTokens(Dict(ResolvedArgsAt(b))) # {}
    /\ \A t \in RefTokens(Dict(ResolvedArgsAt(b))) :
          \E a \in 1..(b - 1) : aws_resources[a].name = t.name

ReferenceNotFoundAt(b) ==
    b = Len(status) /\ status[b] = "raised" /\ error = "ReferenceNotFound"

\* C15 as stated: when the build reaches a description whose tokens 'ref:A' all name
\* earlier descriptions, it does not fail with reference-not-found.
C15_PriorAlwaysAvailable ==
    \A b \in Processed : RefersBack(b) => ~ReferenceNotFoundAt(b)

\* C15 as amended: when the build reaches a description whose tokens 'ref:A' all
\* name earlier descriptions that finished as Found or Created, every token finds
\* its name in the registry and resolution does not fail with reference-not-found.
\* An earlier description that was skipped registers nothing: when a token names
\* only skipped descriptions, resolution fails and the build aborts there.
C15_PriorRegisteredAvailable ==
    \A b \in Processed :
        RefersBack(b) =>
            IF \A t \in RefTokens(Dict(ResolvedArgsAt(b))) : t.name \in RegisteredBefore(b)
            THEN ~ReferenceNotFoundAt(b)
            ELSE ResolutionFailedAt(b)

\* The first description was created and the second, which holds 'ref:bucket', was
\* created from the handle's identifier.
C15_Witness ==
    /\ Len(status) = 2
    /\ RefersBack(2)
    /\ status = <<"created", "created">>
    /\ \E c \in CreatesAt(2) :
          \E key \in DOMAIN calls[c].args :
              /\ calls[c].args[key].k = "output"
              /\ calls[c].args[key].v.pos = 1

(***************************************************************************)
(* C16.                                                                    *)
(***************************************************************************)
\* The positions that finished as Found or Created.
Succeeded == {i \in Processed : status[i] \in {"found", "created"}}

\* The registry entries that hold the handle position i made.
EntriesOf(i) == {n \in DOMAIN resources : resources[n].v.pos = i}

\* C16: at every point of a build the registry holds exactly one handle for each
\* description that finished as Found or Created, and none for any other: its keys
\* are the logical names of those descriptions, each of them made exactly one
\* invocation that returned, and each has its own handle in the registry.
C16_OneHandlePerSucceeded ==
    /\ DOMAIN resources = {aws_resources[i].name : i \in Succeeded}
    /\ \A i \in Succeeded :
          /\ Cardinality({j \in 1..Len(calls) : calls[j].pos = i /\ calls[j].returned}) = 1
          /\ EntriesOf(i) = {aws_resources[i].name}
    /\ \A i \in Processed \ Succeeded :
          /\ EntriesOf(i) = {}
          /\ \A j \in 1..Len(calls) : calls[j].pos = i => ~calls[j].returned

(***************************************************************************)
(* C17.                                                                    *)
(***************************************************************************)
\* The strings 'ref:...' in a value, at any depth.
RECURSIVE TokenStrings(_)
TokenStrings(value) ==
    CASE value.k = "dict" -> UNION {TokenStrings(value.v[i].val) : i \in 1..Len(value.v)}
      [] value.k = "list" -> UNION {TokenStrings(value.v[i]) : i \in 1..Len(value.v)}
      [] value.k = "str" /\ startswith(value.v, RefPrefix) -> {value.v}
      [] OTHER -> {}

\* Those of the descriptions of the build.
BuildTokens == UNION {TokenStrings(Dict(ResolvedArgsAt(i))) : i \in 1..Len(aws_resources)}

\* The text after 'ref:', the name before its first dot and the attribute after it.
TokenText(token) == Suffix(token, Len(RefPrefix))
TokenHasAttr(token) == FirstIndex(TokenText(token), ".") > 0
TokenName(token) ==
    IF TokenHasAttr(token)
    THEN SubSeq(TokenText(token), 1, FirstIndex(TokenText(token), ".") - 1)
    ELSE TokenText(token)
TokenAttr(token) == Suffix(TokenText(token), FirstIndex(TokenText(token), "."))

\* A token whose name is registered resolves to the handle's 'id' when it names no
\* attribute, to the named attribute's value when the handle has it, and fails with
\* attribute-not-found when the handle lacks it.
RegisteredTokenResolves ==
    \A token \in BuildTokens :
        TokenName(token) \in DOMAIN resources =>
            resolve_value(Str(token), resources) =
                IF ~TokenHasAttr(token)
                THEN Return(Output(resources[TokenName(token)], K_id))
                ELSE IF TokenAttr(token) \in resources[TokenName(token)].v.attrs
                THEN Return(Output(resources[TokenName(token)], TokenAttr(token)))
                ELSE Raise("AttributeNotFound")

\* The step in which resolution fails with attribute-not-found leaves the registry
\* as it was.
AttributeFailureKeepsRegistry ==
    (pc = "building" /\ pc' = "aborted" /\ error' = "AttributeNotFound")
        => resources' = resources

\* C17: for a token whose name is registered, the result is the handle's 'id' when
\* the attribute is omitted, the attribute's value when the handle has it, and the
\* attribute-not-found error, with the registry unchanged, when it lacks it.
C17_RegisteredReference ==
    []RegisteredTokenResolves /\ [][AttributeFailureKeepsRegistry]_vars

\* The first description registered a handle; the second, which holds
\* 'ref:bucket.zone', aborted the build with attribute-not-found.
C17_Witness ==
    /\ pc = "aborted"
    /\ status = <<"created", "raised">>
    /\ error = "AttributeNotFound"
    /\ \E token \in TokenStrings(Dict(ResolvedArgsAt(2))) :
          /\ TokenHasAttr(token)
          /\ TokenName(token) \in DOMAIN resources
          /\ TokenAttr(token) \notin resources[TokenName(token)].v.attrs
    /\ EntriesOf(1) # {}

(***************************************************************************)
(* C18.                                                                    *)
(***************************************************************************)
\* C18: the arguments of a creation invocation contain 'tags' only if the class
\* declares 'tags', and contain 'region' if and only if the class declares 'region'.
C18_CommonParametersDeclared ==
    \A c \in CreateCalls :
        /\ K_tags \in DOMAIN calls[c].args => DeclaresAt(calls[c].pos, K_tags)
        /\ K_region \in DOMAIN calls[c].args <=> DeclaresAt(calls[c].pos, K_region)

\* Two creations from descriptions that supply both 'tags' and 'region': one of a
\* class that declares neither, which received neither, and one of a class that
\* declares 'tags' only, which received its tags and no region.
C18_Witness ==
    /\ \E c \in CreateCalls :
          /\ HasKey(ArgsAt(calls[c].pos), K_tags) /\ HasKey(ArgsAt(calls[c].pos), K_region)
          /\ ~DeclaresAt(calls[c].pos, K_tags) /\ ~DeclaresAt(calls[c].pos, K_region)
          /\ K_tags \notin DOMAIN calls[c].args /\ K_region \notin DOMAIN calls[c].args
    /\ \E c \in CreateCalls :
          /\ HasKey(ArgsAt(calls[c].pos), K_tags) /\ HasKey(ArgsAt(calls[c].pos), K_region)
          /\ DeclaresAt(calls[c].pos, K_tags) /\ ~DeclaresAt(calls[c].pos, K_region)
          /\ K_tags \in DOMAIN calls[c].args /\ K_region \notin DOMAIN calls[c].args

(***************************************************************************)
(* C19.                                                                    *)
(***************************************************************************)
\* A step changes the registry only by registering, under the logical name of the
\* current description, the handle an invocation of this step returned.
RegistryChangedOnlyByRegistration ==
    \/ resources' = resources
    \/ /\ \E j \in (Len(calls) + 1)..Len(calls') : calls'[j].returned
       /\ aws_resources[idx].name \in DOMAIN resources'
       /\ resources'[aws_resources[idx].name].v.pos = idx
       /\ \A n \in DOMAIN resources' \ {aws_resources[idx].name} :
             n \in DOMAIN resources /\ resources'[n] = resources[n]
       /\ DOMAIN resources \subseteq DOMAIN resources'

NewLookupCalls == {j \in (Len(calls) + 1)..Len(calls') : calls'[j].op = "lookup"}

\* The resolved argument of the current description under the given key.
ResolvedArg(key) == resolve_value(GetItem(ArgsAt(idx), key), resources).v

\* C20: a lookup invocation receives exactly the mandatory parameters of the lookup
\* entry point, each bound to the resolved argument under the parameter's snake_case
\* form or, failing that, under its own name; no other argument of the description
\* is passed, so a lookup without mandatory parameters is invoked without arguments.
C20_LookupArguments ==
    [][\A j \in NewLookupCalls :
          /\ DOMAIN calls'[j].args = MandatoryAt(idx)
          /\ \A p \in MandatoryAt(idx) :
                calls'[j].args[p] =
                    IF HasKey(ResolvedArgsAt(idx), to_snake_case(p))
                    THEN ResolvedArg(to_snake_case(p))
                    ELSE ResolvedArg(p)
      ]_vars

\* A lookup without mandatory parameters was invoked without arguments although
\* its description supplies the optional 'cidr_block'; then a lookup whose
\* description supplies 'key_id' (a reference), 'keyId', 'aliasName' and the optional
\* 'grantTokens' was invoked with keyId bound to the resolved 'key_id' and aliasName
\* to its own entry.
C20_Witness ==
    /\ Len(status) = 2
    /\ \E l \in LookupsAt(1) :
          /\ DOMAIN calls[l].args = {}
          /\ HasKey(ArgsAt(1), P_cidr_block)
    /\ \E l \in LookupsAt(2) :
          /\ DOMAIN calls[l].args = {P_keyId, P_aliasName}
          /\ calls[l].args[P_keyId].k = "output"
          /\ calls[l].args[P_aliasName] = Str(V_x)
          /\ GetItem(ArgsAt(2), P_keyId) = Str(V_y)
          /\ HasKey(ArgsAt(2), P_grantTokens)

====
